---- MODULE Spec2Model ----
(***************************************************************************)
(* Model of marlin-plotjog: plotjog.py (joystick -> aggregate -> mailbox   *)
(* -> G-code actuation loop) and Joystick.poll of joystick.py.             *)
(*                                                                         *)
(* Numbers.  A Python float v is the integer v * Unit, Unit == 163835 ==   *)
(* 5 * 32767: every axis value raw / 32767.0 and every product with        *)
(* MAX_REACH == 0.2 == 1/5 is then an exact integer.  An optional value    *)
(* (Python None or a value) is the sequence << >> or << v >>.              *)
(***************************************************************************)
EXTENDS Integers, Sequences, FiniteSets, TLC

VARIABLES
    accu,          \* scan accumulator of joystick_positions (plotjog.py:41)
    latest,        \* combine_latest: last aggregate that passed the filter
    ticked,        \* combine_latest: interval(20) has emitted at least once
    queue,         \* observe_on(NewThreadScheduler()) queue in front of move_printer
    pipeline,      \* "running" | "error" (an exception ended the stream)
    nEvents,       \* number of timer ticks (interval(1) and interval(20)) so far
    ppc,           \* position of the observe_on thread inside move_printer
    delta,         \* move_printer: argument
    target,        \* move_printer: local (dx, dy)
    new_position,  \* the mailbox (plotjog.py:44)
    lock,          \* owner of cv's lock: "free" | "producer" | "consumer"
    waiters,       \* threads registered in cv.wait
    cpc,           \* position of consumer_thread inside execute_move
    dxdy,          \* execute_move: local (dx, dy)
    outstanding,   \* lines written to tty that the device has not answered yet
    inbuf,         \* tty input buffer, oldest first: "resp" | "stale" lines
    lastRead,      \* what the last tty.readline() returned
    \* history variables, written by the actions and read by the properties
    actSent,       \* lines written to tty since the consumer's last read of the mailbox
    actRead,       \* number of lines read from tty since then
    staleSeen,     \* the device has emitted a line nobody asked for
    arrived,       \* lines that reached the input buffer since the last flushInput
    discarded,     \* lines the flushInput of the send_gcode call under way threw away
    lastX, lastY,  \* most recently supplied value of each axis
    nEmitSinceTick,\* above-floor aggregates handed to move_printer since the last command tick
    everAbove,     \* some aggregate handed to move_printer exceeded MIN_NORM
    sampling,      \* the last command tick against the poll side: "start" (no command
                   \* tick yet) | "fresh" (an aggregate arrived after it) | "sampled"
                   \* (it took an aggregate that had arrived since the tick before) |
                   \* "carried" (it took the aggregate of the tick before again)
    sinceTake,     \* targets written to the mailbox since the consumer's last take
    takenAfter     \* sinceTake as it was at the consumer's last read

vars == << accu, latest, ticked, queue, pipeline, nEvents, ppc, delta, target,
           new_position, lock, waiters, cpc, dxdy, outstanding, inbuf, lastRead,
           actSent, actRead, staleSeen, arrived, discarded, lastX, lastY,
           nEmitSinceTick, everAbove, sampling, sinceTake, takenAfter >>

pipeVars == << accu, latest, ticked, pipeline, nEvents, lastX, lastY, nEmitSinceTick,
               everAbove, sampling >>
prodVars == << ppc, delta, target >>
consVars == << cpc, dxdy, takenAfter >>
ttyVars  == << outstanding, inbuf, lastRead, actSent, actRead, staleSeen, arrived,
               discarded >>
boxVars  == << new_position, sinceTake >>

-----------------------------------------------------------------------------
(* Bounds of the model *)
MaxEvents == 3
MaxQueue == 1
MaxStale == 1

(* Program constants *)
FEEDRATE == 400
MAX_REACH_DEN == 5
MIN_NORM_DEN == 5
AxisDivisor == 32767
JS_EVENT_BUTTON == 1
JS_EVENT_AXIS == 2

(* The integer that stands for the float 1.0 *)
Unit == MAX_REACH_DEN * AxisDivisor

None == << >>
Some(v) == << v >>

Abs(v) == IF v < 0 THEN -v ELSE v

(* Raw signed 16-bit values the events of axis n carry in this model:     *)
(* 3277 is a deflection of 0.1, 16384 and -16384 one of 0.5 and -0.5.     *)
RawValues(n) == IF n = 0 THEN { 3277, 16384 } ELSE { 3277, -16384 }

(* The 8-byte events the device may deliver: axis events of the two stick  *)
(* axes, an event of a third axis, a button event.                         *)
Events ==
    { [type |-> JS_EVENT_AXIS, number |-> 0, value |-> v] : v \in RawValues(0) }
    \cup { [type |-> JS_EVENT_AXIS, number |-> 1, value |-> v] : v \in RawValues(1) }
    \cup { [type |-> JS_EVENT_AXIS, number |-> 2, value |-> 16384],
           [type |-> JS_EVENT_BUTTON, number |-> 0, value |-> 1] }

axis_map == << "x", "y", "z" >>

-----------------------------------------------------------------------------
(* joystick.py: Joystick.poll.  evbuf is None (the read returned nothing)  *)
(* or Some(event).  The result is None or Some(PollResult); of PollResult  *)
(* only changed_axis and changed_button are kept.                          *)

HasBit(type, bit) == (type \div bit) % 2 = 1

FValue(value) == value * (Unit \div AxisDivisor)

poll(evbuf) ==
    IF evbuf # None
    THEN LET ev == evbuf[1]
             isAxis == HasBit(ev.type, JS_EVENT_AXIS) /\ axis_map[ev.number + 1] # ""
             isButton == HasBit(ev.type, JS_EVENT_BUTTON)
         IN Some([changed_axis |->
                      IF isAxis
                      THEN Some([number |-> ev.number, fvalue |-> FValue(ev.value)])
                      ELSE None,
                  changed_button |-> IF isButton THEN Some(ev.number) ELSE None])
    ELSE None

(* plotjog.py: poll_joystick, given a PollResult (not None) *)
poll_joystick(poll_result) ==
    IF poll_result.changed_axis # None
    THEN LET axis == poll_result.changed_axis[1]
         IN IF axis.number = 0 THEN << Some(axis.fvalue), None >>
            ELSE IF axis.number = 1 THEN << None, Some(axis.fvalue) >>
            ELSE << None, None >>
    ELSE << None, None >>

(* plotjog.py: update_position *)
update_position(acc, update) ==
    [i \in 1..2 |-> IF update[i] # None THEN update[i] ELSE acc[i]]

(* plotjog.py:41: the seed of scan *)
Seed == << Some(0), Some(0) >>

(* plotjog.py:78: the filter *)
Complete(pos) == \A i \in 1..2 : pos[i] # None

(* np.linalg.norm(delta) > MIN_NORM, on a complete vector.  The squares    *)
(* are only formed when both coordinates are within the floor, which keeps *)
(* them inside 32 bits.                                                    *)
MinNorm == Unit \div MIN_NORM_DEN

NormExceeds(pos) ==
    LET x == Abs(pos[1][1])
        y == Abs(pos[2][1])
    IN IF x > MinNorm \/ y > MinNorm
       THEN TRUE
       ELSE x * x + y * y > MinNorm * MinNorm

(* np.array(delta) * MAX_REACH *)
Scale(pos) == << pos[1][1] \div MAX_REACH_DEN, pos[2][1] \div MAX_REACH_DEN >>

-----------------------------------------------------------------------------
Init ==
    /\ accu = Seed
    /\ latest = None
    /\ ticked = FALSE
    /\ queue = << >>
    /\ pipeline = "running"
    /\ nEvents = 0
    /\ ppc = "idle"
    /\ delta = None
    /\ target = None
    /\ new_position = None
    /\ lock = "free"
    /\ waiters = {}
    /\ cpc = "acquire"
    /\ dxdy = None
    /\ outstanding = 0
    /\ inbuf = << >>
    /\ lastRead = None
    /\ actSent = << >>
    /\ actRead = 0
    /\ staleSeen = FALSE
    /\ arrived = 0
    /\ discarded = 0
    /\ lastX = None
    /\ lastY = None
    /\ nEmitSinceTick = 0
    /\ everAbove = FALSE
    /\ sampling = "start"
    /\ sinceTake = << >>
    /\ takenAfter = << >>

-----------------------------------------------------------------------------
(* The reactive pipeline, plotjog.py:41 and 77-81.                         *)

Above(pos) == IF NormExceeds(pos) THEN 1 ELSE 0

(* One interval(1) tick: map(poll_joystick), scan(update_position),        *)
(* filter, combine_latest (left side), observe_on.                         *)
PollTick(evbuf) ==
    /\ pipeline = "running"
    /\ nEvents < MaxEvents
    /\ Len(queue) < MaxQueue
    /\ nEvents' = nEvents + 1
    /\ LET poll_result == poll(evbuf)
       IN IF poll_result = None
          THEN \* poll_result.changed_axis raises AttributeError
               /\ pipeline' = "error"
               /\ UNCHANGED << accu, latest, ticked, queue, lastX, lastY,
                               nEmitSinceTick, everAbove, sampling >>
          ELSE LET update == poll_joystick(poll_result[1])
                   pos == update_position(accu, update)
               IN /\ accu' = pos
                  /\ lastX' = IF update[1] # None THEN update[1] ELSE lastX
                  /\ lastY' = IF update[2] # None THEN update[2] ELSE lastY
                  /\ IF Complete(pos)
                     THEN /\ latest' = Some(pos)
                          /\ sampling' = IF ticked THEN "fresh" ELSE "start"
                          /\ IF ticked
                             THEN /\ queue' = Append(queue, pos)
                                  /\ nEmitSinceTick' = nEmitSinceTick + Above(pos)
                                  /\ everAbove' = (everAbove \/ NormExceeds(pos))
                             ELSE UNCHANGED << queue, nEmitSinceTick, everAbove >>
                     ELSE UNCHANGED << latest, queue, nEmitSinceTick, everAbove,
                                       sampling >>
                  /\ UNCHANGED << ticked, pipeline >>
    /\ UNCHANGED << prodVars, boxVars, lock, waiters, consVars, ttyVars >>

(* what the command tick does to sampling *)
Sampled(s) == IF s \in { "sampled", "carried" } THEN "carried" ELSE "sampled"

(* a command tick that hands an aggregate on only if it is a new one *)
CommandTickNoCarry ==
    /\ pipeline = "running"
    /\ nEvents < MaxEvents
    /\ Len(queue) < MaxQueue
    /\ nEvents' = nEvents + 1
    /\ ticked' = TRUE
    /\ sampling' = IF latest # None THEN Sampled(sampling) ELSE sampling
    /\ IF latest # None /\ sampling \notin { "sampled", "carried" }
       THEN /\ queue' = Append(queue, latest[1])
            /\ nEmitSinceTick' = Above(latest[1])
            /\ everAbove' = (everAbove \/ NormExceeds(latest[1]))
       ELSE /\ nEmitSinceTick' = 0
            /\ UNCHANGED << queue, everAbove >>
    /\ UNCHANGED << accu, latest, pipeline, lastX, lastY >>
    /\ UNCHANGED << prodVars, boxVars, lock, waiters, consVars, ttyVars >>

(* One interval(20) tick: combine_latest (right side), observe_on. *)
CommandTick ==
    /\ pipeline = "running"
    /\ nEvents < MaxEvents
    /\ Len(queue) < MaxQueue
    /\ nEvents' = nEvents + 1
    /\ ticked' = TRUE
    /\ sampling' = IF latest # None THEN Sampled(sampling) ELSE sampling
    /\ IF latest # None
       THEN /\ queue' = Append(queue, latest[1])
            /\ nEmitSinceTick' = Above(latest[1])
            /\ everAbove' = (everAbove \/ NormExceeds(latest[1]))
       ELSE /\ nEmitSinceTick' = 0
            /\ UNCHANGED << queue, everAbove >>
    /\ UNCHANGED << accu, latest, pipeline, lastX, lastY >>
    /\ UNCHANGED << prodVars, boxVars, lock, waiters, consVars, ttyVars >>

-----------------------------------------------------------------------------
(* plotjog.py:68-75: move_printer, run by the observe_on thread, one       *)
(* queued aggregate at a time.                                             *)

Dequeue ==
    /\ ppc = "idle"
    /\ queue # << >>
    /\ delta' = Some(Head(queue))
    /\ queue' = Tail(queue)
    /\ ppc' = "norm"
    /\ UNCHANGED << target, pipeVars, boxVars, lock, waiters, consVars, ttyVars >>

(* move_printer without the noise floor *)
MoveCheckNoFloor ==
    /\ ppc = "norm"
    /\ target' = Some(Scale(delta[1]))
    /\ ppc' = "acquire"
    /\ UNCHANGED << delta, queue, pipeVars, boxVars, lock, waiters, consVars, ttyVars >>

(* move_printer emptying the mailbox on a sample within the noise floor *)
MoveCheckClearBelow ==
    /\ ppc = "norm"
    /\ IF NormExceeds(delta[1])
       THEN /\ target' = Some(Scale(delta[1]))
            /\ ppc' = "acquire"
            /\ UNCHANGED << delta, boxVars >>
       ELSE /\ ppc' = "idle"
            /\ delta' = None
            /\ new_position' = None
            /\ UNCHANGED << target, sinceTake >>
    /\ UNCHANGED << queue, pipeVars, lock, waiters, consVars, ttyVars >>

(* line 70-71: the noise floor and the scaling *)
MoveCheck ==
    /\ ppc = "norm"
    /\ IF NormExceeds(delta[1])
       THEN /\ target' = Some(Scale(delta[1]))
            /\ ppc' = "acquire"
            /\ UNCHANGED delta
       ELSE /\ ppc' = "idle"
            /\ delta' = None
            /\ UNCHANGED target
    /\ UNCHANGED << queue, pipeVars, boxVars, lock, waiters, consVars, ttyVars >>

(* move_printer writing without taking cv's lock *)
MoveAcquireNoLock ==
    /\ ppc = "acquire"
    /\ ppc' = "write"
    /\ UNCHANGED << delta, target, queue, pipeVars, boxVars, lock, waiters, consVars,
                    ttyVars >>

(* line 73: with cv *)
MoveAcquire ==
    /\ ppc = "acquire"
    /\ lock = "free"
    /\ lock' = "producer"
    /\ ppc' = "write"
    /\ UNCHANGED << delta, target, queue, pipeVars, boxVars, waiters, consVars, ttyVars >>

(* A mailbox that keeps the first unconsumed target instead of the last *)
MoveWriteKeepFirst ==
    /\ ppc = "write"
    /\ new_position' = IF new_position = None THEN target ELSE new_position
    /\ sinceTake' = Append(sinceTake, target[1])
    /\ ppc' = "notify"
    /\ UNCHANGED << delta, target, queue, pipeVars, lock, waiters, consVars, ttyVars >>

(* line 74: new_position = dx, dy *)
MoveWrite ==
    /\ ppc = "write"
    /\ new_position' = target
    /\ sinceTake' = Append(sinceTake, target[1])
    /\ ppc' = "notify"
    /\ UNCHANGED << delta, target, queue, pipeVars, lock, waiters, consVars, ttyVars >>

(* move_printer without cv.notify() *)
MoveNoNotify ==
    /\ ppc = "notify"
    /\ ppc' = "release"
    /\ UNCHANGED << delta, target, queue, pipeVars, boxVars, lock, waiters, consVars,
                    ttyVars >>

(* line 75: cv.notify() wakes one registered waiter, if there is one *)
MoveNotify ==
    /\ ppc = "notify"
    /\ waiters' = IF waiters = {} THEN {} ELSE waiters \ { CHOOSE w \in waiters : TRUE }
    /\ ppc' = "release"
    /\ UNCHANGED << delta, target, queue, pipeVars, boxVars, lock, consVars, ttyVars >>

(* end of the with block *)
MoveRelease ==
    /\ ppc = "release"
    /\ lock' = "free"
    /\ ppc' = "idle"
    /\ delta' = None
    /\ target' = None
    /\ UNCHANGED << queue, pipeVars, boxVars, waiters, consVars, ttyVars >>

-----------------------------------------------------------------------------
(* plotjog.py:50-61: execute_move, run by consumer_thread.                 *)

(* line 53: with cv *)
ConsumerAcquire ==
    /\ cpc = "acquire"
    /\ lock = "free"
    /\ lock' = "consumer"
    /\ cpc' = "check"
    /\ UNCHANGED << dxdy, takenAfter, queue, pipeVars, prodVars, boxVars, waiters,
                    ttyVars >>

(* line 54: cv.wait_for(new_position_available): the predicate is tested   *)
(* with the lock held; when it is false cv.wait() registers the thread and *)
(* releases the lock in one step.                                          *)
ConsumerCheck ==
    /\ cpc = "check"
    /\ IF new_position # None
       THEN /\ cpc' = "read"
            /\ UNCHANGED << lock, waiters >>
       ELSE /\ cpc' = "waiting"
            /\ waiters' = waiters \cup { "consumer" }
            /\ lock' = "free"
    /\ UNCHANGED << dxdy, takenAfter, queue, pipeVars, prodVars, boxVars, ttyVars >>

(* cv.wait() returning: notified, and the lock re-acquired *)
ConsumerWake ==
    /\ cpc = "waiting"
    /\ "consumer" \notin waiters
    /\ lock = "free"
    /\ lock' = "consumer"
    /\ cpc' = "check"
    /\ UNCHANGED << dxdy, takenAfter, queue, pipeVars, prodVars, boxVars, waiters,
                    ttyVars >>

(* line 55: dx, dy = new_position *)
ConsumerRead ==
    /\ cpc = "read"
    /\ dxdy' = new_position
    /\ takenAfter' = sinceTake
    /\ actSent' = << >>
    /\ actRead' = 0
    /\ cpc' = "clear"
    /\ UNCHANGED << queue, pipeVars, prodVars, boxVars, lock, waiters, outstanding, inbuf,
                    lastRead, staleSeen, arrived, discarded >>

(* execute_move without line 56: the target stays in the mailbox *)
ConsumerClearKeep ==
    /\ cpc = "clear"
    /\ sinceTake' = << >>
    /\ cpc' = "release"
    /\ UNCHANGED << new_position, dxdy, takenAfter, queue, pipeVars, prodVars, lock,
                    waiters, ttyVars >>

(* line 56: new_position = None *)
ConsumerClear ==
    /\ cpc = "clear"
    /\ new_position' = None
    /\ sinceTake' = << >>
    /\ cpc' = "release"
    /\ UNCHANGED << dxdy, takenAfter, queue, pipeVars, prodVars, lock, waiters,
                    ttyVars >>

(* execute_move with send_gcode inside the with block *)
ConsumerReleaseLate ==
    /\ cpc = "release"
    /\ cpc' = "g91_flush"
    /\ UNCHANGED << dxdy, takenAfter, queue, pipeVars, prodVars, boxVars, lock, waiters,
                    ttyVars >>

(* end of the with block; send_gcode starts after it *)
ConsumerRelease ==
    /\ cpc = "release"
    /\ lock' = "free"
    /\ cpc' = "g91_flush"
    /\ UNCHANGED << dxdy, takenAfter, queue, pipeVars, prodVars, boxVars, waiters,
                    ttyVars >>

-----------------------------------------------------------------------------
(* plotjog.py:22-25 and 58-61: send_gcode and the two lines.               *)

(* A float of the program as sign and magnitude; -0.0 has the sign set.    *)
Float(v) == [neg |-> v < 0, mag |-> Abs(v)]
Negate(f) == [neg |-> ~f.neg, mag |-> f.mag]

(* '{:.3f}': the sign and the thousandths, rounded to nearest (no value of *)
(* the model lies halfway between two thousandths).                        *)
Fmt3(f) == [neg |-> f.neg, milli |-> (2000 * f.mag + Unit) \div (2 * Unit)]

G91Line == [cmd |-> "G91", x |-> None, y |-> None, f |-> None]

(* The G1 line with dy not negated *)
MoveLineNoFlip(d) ==
    [cmd |-> "G1", x |-> Some(Fmt3(Float(d[1]))), y |-> Some(Fmt3(Float(d[2]))),
     f |-> Some(FEEDRATE)]

(* line 61: 'G1 X{:.3f} Y{:.3f} F{}'.format(dx, -dy, FEEDRATE) *)
MoveLine(d) ==
    [cmd |-> "G1", x |-> Some(Fmt3(Float(d[1]))), y |-> Some(Fmt3(Negate(Float(d[2])))),
     f |-> Some(FEEDRATE)]

FlushPcs == { "g91_flush", "g1_flush" }
WritePcs == { "g91_write", "g1_write" }
ReadPcs  == { "g91_read", "g1_read" }
Executing == FlushPcs \cup WritePcs \cup ReadPcs

(* send_gcode flushing only on the first call of an activation *)
TtyFlushFirstOnly ==
    /\ cpc \in FlushPcs
    /\ IF cpc = "g91_flush"
       THEN /\ inbuf' = << >>
            /\ arrived' = 0
            /\ discarded' = Len(inbuf)
       ELSE UNCHANGED << inbuf, arrived, discarded >>
    /\ cpc' = IF cpc = "g91_flush" THEN "g91_write" ELSE "g1_write"
    /\ UNCHANGED << outstanding, lastRead, actSent, actRead, staleSeen, dxdy, takenAfter,
                    queue, pipeVars, prodVars, boxVars, lock, waiters >>

(* line 23: tty.flushInput() *)
TtyFlush ==
    /\ cpc \in FlushPcs
    /\ inbuf' = << >>
    /\ arrived' = 0
    /\ discarded' = Len(inbuf)
    /\ cpc' = IF cpc = "g91_flush" THEN "g91_write" ELSE "g1_write"
    /\ UNCHANGED << outstanding, lastRead, actSent, actRead, staleSeen, dxdy, takenAfter,
                    queue, pipeVars, prodVars, boxVars, lock, waiters >>

(* line 24: tty.write(s + b'\n') *)
TtyWrite ==
    /\ cpc \in WritePcs
    /\ actSent' = Append(actSent, IF cpc = "g91_write" THEN G91Line ELSE MoveLine(dxdy[1]))
    /\ outstanding' = outstanding + 1
    /\ cpc' = IF cpc = "g91_write" THEN "g91_read" ELSE "g1_read"
    /\ discarded' = 0
    /\ UNCHANGED << inbuf, lastRead, actRead, staleSeen, arrived, dxdy, takenAfter,
                    queue, pipeVars, prodVars, boxVars, lock, waiters >>

(* send_gcode raising on a response that is not ok *)
TtyReadValidate ==
    /\ cpc \in ReadPcs
    /\ inbuf # << >>
    /\ lastRead' = Some(Head(inbuf))
    /\ inbuf' = Tail(inbuf)
    /\ actRead' = actRead + 1
    /\ cpc' = IF Head(inbuf) \notin { "ok", "resp" } THEN "dead"
              ELSE IF cpc = "g91_read" THEN "g1_flush" ELSE "acquire"
    /\ UNCHANGED << outstanding, actSent, staleSeen, arrived, discarded, dxdy, takenAfter,
                    queue, pipeVars, prodVars, boxVars, lock, waiters >>

(* send_gcode without waiting for the response line *)
TtyReadSkip ==
    /\ cpc \in ReadPcs
    /\ cpc' = IF cpc = "g91_read" THEN "g1_flush" ELSE "acquire"
    /\ UNCHANGED << ttyVars, dxdy, takenAfter, queue, pipeVars, prodVars, boxVars, lock,
                    waiters >>

(* line 25: tty.readline() blocks until a line is in the input buffer; the *)
(* line is returned whatever it says. After the second line the loop of    *)
(* execute_move starts over.                                               *)
TtyRead ==
    /\ cpc \in ReadPcs
    /\ inbuf # << >>
    /\ lastRead' = Some(Head(inbuf))
    /\ inbuf' = Tail(inbuf)
    /\ actRead' = actRead + 1
    /\ cpc' = IF cpc = "g91_read" THEN "g1_flush" ELSE "acquire"
    /\ UNCHANGED << outstanding, actSent, staleSeen, arrived, discarded, dxdy, takenAfter,
                    queue, pipeVars, prodVars, boxVars, lock, waiters >>

(* send_gcode catching the exception and starting the activation over *)
TtyFailRetry ==
    /\ cpc \in Executing
    /\ cpc' = "g91_flush"
    /\ UNCHANGED << ttyVars, dxdy, takenAfter, queue, pipeVars, prodVars, boxVars, lock,
                    waiters >>

(* A serial.SerialException in flushInput, write or readline is not caught: *)
(* it ends execute_move and with it consumer_thread.                        *)
TtyFail ==
    /\ cpc \in Executing
    /\ cpc' = "dead"
    /\ UNCHANGED << ttyVars, dxdy, takenAfter, queue, pipeVars, prodVars, boxVars, lock,
                    waiters >>

(* The device answers the oldest sent line it has not answered yet. *)
DeviceRespond ==
    /\ outstanding > 0
    /\ outstanding' = outstanding - 1
    /\ inbuf' = Append(inbuf, "resp")
    /\ arrived' = arrived + 1
    /\ UNCHANGED << lastRead, actSent, actRead, staleSeen, discarded, queue, pipeVars, prodVars,
                    boxVars, lock, waiters, consVars >>

(* The device emits a line nobody asked for. *)
DeviceUnsolicited ==
    /\ Len(SelectSeq(inbuf, LAMBDA l : l = "stale")) < MaxStale
    /\ staleSeen' = TRUE
    /\ inbuf' = Append(inbuf, "stale")
    /\ arrived' = arrived + 1
    /\ UNCHANGED << outstanding, lastRead, actSent, actRead, discarded, queue, pipeVars, prodVars,
                    boxVars, lock, waiters, consVars >>

-----------------------------------------------------------------------------
Producer ==
    \/ Dequeue
    \/ MoveCheck
    \/ MoveAcquire
    \/ MoveWrite
    \/ MoveNotify
    \/ MoveRelease

Consumer ==
    \/ ConsumerAcquire
    \/ ConsumerCheck
    \/ ConsumerWake
    \/ ConsumerRead
    \/ ConsumerClear
    \/ ConsumerRelease
    \/ TtyFlush
    \/ TtyWrite
    \/ TtyRead

Pipeline ==
    \/ \E evbuf \in { None } \cup { Some(e) : e \in Events } : PollTick(evbuf)
    \/ CommandTick

Next ==
    \/ Pipeline
    \/ Producer
    \/ Consumer
    \/ TtyFail
    \/ DeviceRespond
    \/ DeviceUnsolicited

Spec == Init /\ [][Next]_vars

(* The transport answers every line with one line, says nothing else and   *)
(* never fails; every thread that can take a step eventually takes one.    *)
NextLive ==
    \/ Pipeline
    \/ Producer
    \/ Consumer
    \/ DeviceRespond

LiveSpec ==
    /\ Init
    /\ [][NextLive]_vars
    /\ WF_vars(Producer)
    /\ WF_vars(Consumer)
    /\ WF_vars(DeviceRespond)

-----------------------------------------------------------------------------
(* The response lines by their content.  tty.readline().strip() returns    *)
(* what the device wrote: an acknowledgment, an error text, an empty line. *)
ResponseTexts == { "ok", "Error", "" }

DeviceAnswer(text) ==
    /\ outstanding > 0
    /\ outstanding' = outstanding - 1
    /\ inbuf' = Append(inbuf, text)
    /\ arrived' = arrived + 1
    /\ UNCHANGED << lastRead, actSent, actRead, staleSeen, discarded, queue, pipeVars, prodVars,
                    boxVars, lock, waiters, consVars >>

DeviceAnswers == \E text \in ResponseTexts : DeviceAnswer(text)

(* The transport answers every line with one line of any content and never *)
(* fails; every thread that can take a step eventually takes one.          *)
NextAck ==
    \/ Pipeline
    \/ Producer
    \/ Consumer
    \/ DeviceAnswers

AckSpec ==
    /\ Init
    /\ [][NextAck]_vars
    /\ WF_vars(Producer)
    /\ WF_vars(Consumer)
    /\ WF_vars(DeviceAnswers)

-----------------------------------------------------------------------------
(* Joystick.poll over the range of the event's value field, a signed       *)
(* 16-bit integer (struct format 'h'): both ends, the values next to them  *)
(* and some in between, on either stick axis.                              *)
WideRaw == { -32768, -32767, -16384, -1, 0, 1, 16384, 32767 }

WideEvents ==
    { [type |-> JS_EVENT_AXIS, number |-> n, value |-> v] : n \in { 0, 1 }, v \in WideRaw }

NextPoll == \E e \in WideEvents : PollTick(Some(e))

PollSpec == Init /\ [][NextPoll]_vars

-----------------------------------------------------------------------------
(* Properties                                                              *)

Last(seq) == seq[Len(seq)]

(* The consumer is somewhere between the top of the loop and the take *)
IdlePcs == { "acquire", "check", "waiting", "read" }

(* C1. Mailbox overwrite law: after targets a and then b were written with *)
(* no take in between, the take returns b, the last target written; once   *)
(* a take is done and nothing was written since, the mailbox is empty, so  *)
(* the next take blocks in wait_for instead of returning an older target.  *)
C1_OverwriteLaw ==
    /\ IF takenAfter = << >> THEN dxdy = None ELSE dxdy = Some(Last(takenAfter))
    /\ (sinceTake = << >>) => (new_position = None)
    /\ (sinceTake = << >> /\ cpc = "check") => ENABLED (ConsumerCheck /\ cpc' = "waiting")

(* C1 witness: a then b (a # b) were written, the consumer took b, ran the *)
(* activation, came back and now blocks on the empty mailbox.              *)
C1_Witness ==
    /\ Len(takenAfter) = 2
    /\ takenAfter[1] # takenAfter[2]
    /\ dxdy = Some(takenAfter[2])
    /\ sinceTake = << >>
    /\ cpc = "waiting"

(* C2. Under every interleaving the mailbox holds the latest completed     *)
(* write, the consumer reads only when a write completed since its last    *)
(* take (no written value is taken twice), and what it reads is that       *)
(* latest write (never an overwritten one).                                *)
C2_TakesLatestWrite ==
    [][ConsumerRead =>
          /\ sinceTake # << >>
          /\ new_position = Some(Last(sinceTake))
          /\ dxdy' = Some(Last(sinceTake))]_vars

(* C2 witness: the consumer has run one activation and has now read a     *)
(* second target, one written after its first take.                       *)
C2_Witness ==
    /\ cpc = "clear"
    /\ actRead = 0
    /\ lastRead # None
    /\ Len(takenAfter) = 1
    /\ dxdy = Some(takenAfter[1])
    /\ outstanding = 0

(* C3. No lost wakeup: when a write has completed since the consumer's     *)
(* last take, the consumer eventually takes.                               *)
C3_NoLostWakeup == (sinceTake # << >>) ~> (sinceTake = << >>)

(* C3 witness: a write and its notify completed while the consumer was in  *)
(* the transport round trip, registered with nobody.                       *)
C3_Witness ==
    /\ cpc \in ReadPcs
    /\ sinceTake # << >>
    /\ waiters = {}
    /\ ppc = "idle"

(* C4. The take is atomic: between the consumer's read and its clear it    *)
(* holds the lock, no write has happened, and what the clear erases is     *)
(* what was read.                                                          *)
C4_AtomicTake ==
    (cpc = "clear") =>
        /\ lock = "consumer"
        /\ ppc \notin { "write", "notify", "release" }
        /\ sinceTake = takenAfter
        /\ new_position = dxdy

(* C4 witness: the consumer is between read and clear while the producer   *)
(* stands at the lock with the next target.                                *)
C4_Witness ==
    /\ cpc = "clear"
    /\ ppc = "acquire"
    /\ target # dxdy

(* C5. While the actuation loop is in a transport round trip the lock is   *)
(* not the consumer's, and every step of a mailbox write is enabled.       *)
C5_ProducerNeverBlocks ==
    (cpc \in Executing) =>
        /\ lock # "consumer"
        /\ (ppc = "acquire") => ENABLED MoveAcquire
        /\ (ppc \in { "write", "notify", "release" }) => ENABLED Producer

(* C5 witness: the consumer waits in readline for a device that has not    *)
(* answered, and the producer has just written.                            *)
C5_Witness ==
    /\ cpc = "g91_read"
    /\ inbuf = << >>
    /\ ppc = "notify"
    /\ new_position = target

C7_NoIncompleteVector ==
    (lastX # None /\ lastY = None) =>
        /\ queue = << >>
        /\ delta = None
        /\ new_position = None

(* C8. Each coordinate of an aggregate that the aggregator has put out is  *)
(* the most recently supplied value of its axis, or unset if none was.     *)
C8_LatestOrUnset ==
    (latest # None) => (latest[1] = << lastX, lastY >> /\ accu = << lastX, lastY >>)

(* C9. Noise floor: move_printer goes on to write only for a vector whose  *)
(* norm exceeds MIN_NORM, and what it writes is the vector times MAX_REACH *)
(* (a fifth); when no vector handed to it ever exceeded MIN_NORM, nothing  *)
(* was written, taken or sent.                                             *)
C9_AboveFloor(v) ==
    LET rx == Abs(v[1][1]) \div 5
        ry == Abs(v[2][1]) \div 5
    IN IF rx > 6553 \/ ry > 6553
       THEN TRUE
       ELSE 25 * (rx * rx + ry * ry) > 32767 * 32767

C9_NoiseFloor ==
    /\ (ppc \in { "acquire", "write", "notify", "release" }) =>
          /\ C9_AboveFloor(delta[1])
          /\ target # None
          /\ 5 * target[1][1] = delta[1][1][1]
          /\ 5 * target[1][2] = delta[1][2][1]
    /\ (ppc \in { "notify", "release" }) => (new_position = target)
    /\ (ppc = "idle") => (delta = None)
    /\ ~everAbove =>
          /\ new_position = None
          /\ sinceTake = << >>
          /\ dxdy = None
          /\ actSent = << >>
          /\ outstanding = 0
          /\ cpc \in IdlePcs

(* C9 witness: axis 0 = 0.1 and axis 1 = 0.1, the aggregate was handed to  *)
(* move_printer and dropped there.                                         *)
C9_Witness ==
    /\ latest = Some(<< Some(FValue(3277)), Some(FValue(3277)) >>)
    /\ ticked
    /\ nEvents = 3
    /\ queue = << >>
    /\ ppc = "idle"
    /\ ~everAbove

(* C10. Between two consecutive command ticks at most one target goes to   *)
(* move_printer to be written: counted from a command tick (its own        *)
(* emission included) the above-floor aggregates are at most one.          *)
C10_OneTargetPerCommandTick == nEmitSinceTick <= 1

(* C11. A poll that returns no event is no update: the aggregate stays as  *)
(* it is and the pipeline goes on polling.                                 *)
C11_NoEventIsNoUpdate ==
    [][PollTick(None) => (accu' = accu /\ pipeline' = "running")]_vars

(* the step of an activation that follows the step at pc *)
C12_AfterPc(pc) ==
    CASE pc = "g91_flush" -> "g91_write"
      [] pc = "g91_write" -> "g91_read"
      [] pc = "g91_read"  -> "g1_flush"
      [] pc = "g1_flush"  -> "g1_write"
      [] pc = "g1_write"  -> "g1_read"
      [] OTHER            -> "acquire"

(* C12. A transport failure ends the actuation loop for good: from then on *)
(* no line is written, nothing is read from the transport, nothing is      *)
(* taken from the mailbox and the lock is never the consumer's, while the  *)
(* producer's steps stay enabled.  A step of an activation is followed by  *)
(* the next one or by the end of the loop, never by an earlier step.       *)
C12_FailureIsFatal ==
    /\ [][(cpc \in Executing /\ cpc' # cpc) =>
             (cpc' = C12_AfterPc(cpc) \/ cpc' = "dead")]_vars
    /\ [][(cpc = "dead") =>
             /\ cpc' = "dead"
             /\ actSent' = actSent
             /\ actRead' = actRead
             /\ lastRead' = lastRead
             /\ outstanding' <= outstanding
             /\ dxdy' = dxdy
             /\ takenAfter' = takenAfter
             /\ (new_position # None) => (new_position' # None)]_vars
    /\ []((cpc = "dead") =>
             /\ lock # "consumer"
             /\ Len(actSent) <= actRead + 1
             /\ (ppc = "acquire") => ENABLED MoveAcquire
             /\ (ppc \in { "write", "notify", "release" }) => ENABLED Producer)

(* C12 witness: the loop died after the G91 line was written and before    *)
(* its response was read; the G1 line was never sent, and the producer has *)
(* written a further target, which stays in the mailbox.                   *)
C12_Witness ==
    /\ cpc = "dead"
    /\ Len(actSent) = 1
    /\ actRead = 0
    /\ ppc = "notify"
    /\ new_position = target
    /\ sinceTake # << >>

(* C13. The G1 line of a taken target (dx, dy): X is dx and Y is -dy, each *)
(* as sign and the nearest thousandth, and F is 400.  The sign of Y is set *)
(* exactly when dy is not negative (-dy is negative, or -0.0).  For axis 0 *)
(* at 0.5 and axis 1 at -0.5 (raw 16384 and -16384) the line is            *)
(* G1 X0.100 Y0.100 F400, after G91.                                       *)
C13_Nearest(milli, mag) ==
    /\ milli >= 0
    /\ 2 * Abs(1000 * mag - milli * Unit) <= Unit

C13_MoveLineFormat ==
    (Len(actSent) = 2) =>
        LET line == actSent[2]
            dx == dxdy[1][1]
            dy == dxdy[1][2]
        IN /\ actSent[1].cmd = "G91"
           /\ line.cmd = "G1"
           /\ line.f = Some(400)
           /\ line.x[1].neg = (dx < 0)
           /\ C13_Nearest(line.x[1].milli, Abs(dx))
           /\ line.y[1].neg = (dy >= 0)
           /\ C13_Nearest(line.y[1].milli, Abs(dy))
           /\ (dx = 16384 /\ dy = -16384) =>
                 /\ line.x = Some([neg |-> FALSE, milli |-> 100])
                 /\ line.y = Some([neg |-> FALSE, milli |-> 100])

(* C13 witness: axis 0 at 0.5, axis 1 at -0.5, the target (0.1, -0.1) was  *)
(* taken and both lines are written.                                       *)
C13_Witness ==
    /\ accu = << Some(FValue(16384)), Some(FValue(-16384)) >>
    /\ dxdy = Some(<< 16384, -16384 >>)
    /\ Len(actSent) = 2
    /\ cpc = "g1_read"

(* C14. The loop is either at the mailbox (the take included) or in the    *)
(* round trip.  A readline that returns a line moves on whatever the line  *)
(* says: after the G91 response to the G1 line, after the G1 response back *)
(* to the mailbox; from the round trip the loop always comes back to the   *)
(* mailbox and takes the target that is pending there.                     *)
TakePcs == IdlePcs \cup { "clear", "release" }

C14_UnconditionalReturn ==
    /\ [](cpc \in TakePcs \cup Executing)
    /\ []((cpc \in ReadPcs /\ inbuf # << >>) => ENABLED TtyRead)
    /\ [][(cpc = "g91_read" /\ cpc' # cpc) => (cpc' = "g1_flush")]_vars
    /\ [][(cpc = "g1_read" /\ cpc' # cpc) => (cpc' = "acquire")]_vars
    /\ (cpc \in Executing) ~> (cpc = "acquire")
    /\ (cpc \in Executing /\ new_position # None) ~> (cpc = "clear")

(* C14 witness: the G1 response of the last activation was an error text,  *)
(* and the loop has come back and read the next target.                    *)
C14_Witness ==
    /\ cpc = "clear"
    /\ lastRead = Some("Error")
    /\ actRead = 0
    /\ dxdy # None

(* C15. An event that is not an axis event of index 0 or 1 (a button, a    *)
(* third axis) leaves the aggregate as it was and hands nothing on that    *)
(* move_printer would write to the mailbox.                                *)
StickAxisEvent(e) == HasBit(e.type, JS_EVENT_AXIS) /\ e.number \in { 0, 1 }

C15_OtherEventsIgnored ==
    [][\A e \in Events :
          (~StickAxisEvent(e) /\ PollTick(Some(e))) =>
              /\ accu' = accu
              /\ nEmitSinceTick' = nEmitSinceTick]_vars

(* C16. A command tick that finds no aggregate newer than the one the      *)
(* command tick before it took hands that same aggregate to move_printer   *)
(* again, and move_printer makes a target of it exactly when its norm      *)
(* exceeds MIN_NORM: a deflected stick at rest gives one more move, a      *)
(* centred one gives none.                                                 *)
C16_CarryForward ==
    /\ []((sampling \in { "sampled", "carried" }) =>
              (latest # None /\ latest[1] = accu))
    /\ [][(CommandTick /\ sampling \in { "sampled", "carried" }) =>
              /\ latest' = latest
              /\ queue' = Append(queue, latest[1])
              /\ nEmitSinceTick' = Above(latest[1])
              /\ sampling' = "carried"]_vars
    /\ [][(ppc = "norm" /\ ppc' # ppc) =>
              IF NormExceeds(delta[1])
              THEN ppc' = "acquire" /\ target' = Some(Scale(delta[1]))
              ELSE ppc' = "idle" /\ target' = target /\ new_position' = new_position]_vars

(* C16 witness: the stick is held at x = 0.5; the target of one command    *)
(* tick is in the mailbox and the next command tick has queued the same    *)
(* aggregate again.                                                        *)
C16_Witness ==
    /\ sampling = "carried"
    /\ NormExceeds(latest[1])
    /\ queue = << latest[1] >>
    /\ sinceTake = << Scale(latest[1]) >>

(* C17. The mailbox goes from a target to empty only by the consumer's     *)
(* clear, after it has read that target.  A sample within the noise floor  *)
(* ends move_printer with the mailbox as it was, so a target written       *)
(* before stays pending, and a pending target is eventually taken.         *)
C17_OnlyConsumerEmpties ==
    /\ [][(new_position # None /\ new_position' = None) =>
              (cpc = "clear" /\ cpc' = "release" /\ dxdy = new_position)]_vars
    /\ [][(ppc = "norm" /\ ppc' # ppc /\ ~NormExceeds(delta[1])) =>
              (ppc' = "idle" /\ new_position' = new_position)]_vars
    /\ (new_position # None) ~> (new_position = None /\ dxdy # None)

(* C17 witness: x = 0.5 was written to the mailbox, the stick went back to *)
(* x = 0.1, that sample has been through move_printer, and the consumer    *)
(* has not taken the target yet.                                           *)
C17_Witness ==
    /\ new_position = Some(<< 16384, 0 >>)
    /\ sinceTake = << << 16384, 0 >> >>
    /\ accu = << Some(FValue(3277)), Some(0) >>
    /\ ~NormExceeds(accu)
    /\ nEvents = 3
    /\ queue = << >>
    /\ ppc = "idle"
    /\ dxdy = None

(* C18. Every axis value Joystick.poll has produced, for a raw value from  *)
(* -32768 to 32767, lies within [-1.0, 1.0].                               *)
C18_NormalizedRange ==
    /\ (lastX # None) => (-Unit <= lastX[1] /\ lastX[1] <= Unit)
    /\ (lastY # None) => (-Unit <= lastY[1] /\ lastY[1] <= Unit)

(* C19. Every write to the transport comes straight after a flushInput of  *)
(* the same send_gcode call.  An activation flushes twice: before G91, and *)
(* between reading G91's response and writing the G1 line.  What is in the *)
(* input buffer at the second flush is thrown away, so the line read as    *)
(* the G1 response reached the buffer after that flush.                    *)
C19_FlushBeforeEveryWrite ==
    /\ [][(cpc' \in WritePcs /\ cpc' # cpc) =>
              /\ cpc = (IF cpc' = "g91_write" THEN "g91_flush" ELSE "g1_flush")
              /\ inbuf' = << >>
              /\ discarded' = Len(inbuf)]_vars
    /\ [][(actSent' # actSent /\ actSent' # << >>) => (cpc \in WritePcs)]_vars
    /\ []((cpc = "g91_flush") => (actSent = << >> /\ actRead = 0))
    /\ []((cpc = "g1_flush") => (Len(actSent) = 1 /\ actRead = 1))
    /\ []((cpc \in WritePcs \cup ReadPcs) => (Len(inbuf) = arrived))
    /\ [][(cpc = "g1_read" /\ cpc' = "acquire") =>
              /\ arrived >= 1
              /\ Len(inbuf) = arrived
              /\ lastRead' = Some(Head(inbuf))]_vars

(* C19 witness: G91's response has been read, a line that arrived after    *)
(* the first flush was still in the buffer, and the second flush has       *)
(* thrown it away before the G1 line is written.                           *)
C19_Witness ==
    /\ cpc = "g1_write"
    /\ Len(actSent) = 1
    /\ actRead = 1
    /\ discarded = 1
    /\ inbuf = << >>

====
